---- MODULE Spec2Model ----
(***************************************************************************)
(* A model of the EIP-7702 sponsorship scripts of eip7702-example.          *)
(*                                                                         *)
(* Every script is one async main(): a straight line of reads from the     *)
(* node, local computation (hex conversion, RLP, hashing, signing) and one *)
(* or two submissions.  The model keeps the bytes: a hex string of the     *)
(* scripts is the sequence of its bytes, a BigInt is the sequence of its   *)
(* base-256 digits (most significant first, empty for zero), and RLP is    *)
(* computed byte for byte as ethers.encodeRlp computes it.  keccak256 and  *)
(* secp256k1 are kept symbolic: a digest is the record of its preimage, a  *)
(* signature is a deterministic function of key and digest.                *)
(***************************************************************************)
EXTENDS Integers, Sequences, FiniteSets, TLC

(***************************************************************************)
(* Bytes and numbers                                                       *)
(***************************************************************************)

Byte == 0..255

\* n in base 256, most significant digit first; zero has no digits (a BigInt).
RECURSIVE Digits(_)
Digits(n) == IF n = 0 THEN <<>> ELSE Digits(n \div 256) \o <<n % 256>>

\* The value of a digit string (used only where it fits the integers).
RECURSIVE Value(_)
Value(d) == IF Len(d) = 0 THEN 0
            ELSE 256 * Value(SubSeq(d, 1, Len(d) - 1)) + d[Len(d)]

\* a < b for digit strings without leading zeros.
RECURSIVE LexLess(_, _)
LexLess(a, b) == IF Len(a) = 0 THEN FALSE
                 ELSE IF a[1] # b[1] THEN a[1] < b[1]
                 ELSE LexLess(Tail(a), Tail(b))

BigLess(a, b) == IF Len(a) # Len(b) THEN Len(a) < Len(b) ELSE LexLess(a, b)

BigLeq(a, b) == a = b \/ BigLess(a, b)

\* ethers.toBeHex(value) without a width: the hex digits of the value, padded
\* to an even length.  (0).toString(16) is "0", so zero becomes "0x00".
ToBeHex(d) == IF Len(d) = 0 THEN <<0>> ELSE d

\* A value left-padded with zero bytes to a 32-byte ABI word.
Word(d) == [i \in 1..32 |-> IF i <= 32 - Len(d) THEN 0 ELSE d[i - (32 - Len(d))]]

\* A position-weighted sum of bytes lo..hi: the stand-in for the bits of a
\* digest that a signature's numbers depend on.
RECURSIVE Mix(_, _, _)
Mix(b, lo, hi) ==
    IF lo > hi THEN 0
    ELSE IF lo = hi THEN (((lo % 7) + 1) * b[lo]) % 251
    ELSE LET mid == (lo + hi) \div 2
         IN  (Mix(b, lo, mid) + Mix(b, mid + 1, hi)) % 251

(***************************************************************************)
(* RLP (ethers.encodeRlp): an item is a byte string B(b) or a list L(xs)   *)
(***************************************************************************)

B(b) == [b |-> b]
L(xs) == [l |-> xs]
IsBytes(x) == DOMAIN x = {"b"}
IsList(x) == DOMAIN x = {"l"}

\* arrayifyInteger: the length of a long payload, big-endian
LengthPrefix(base, payload) ==
    IF Len(payload) <= 55 THEN <<base + Len(payload)>> \o payload
    ELSE LET len == Digits(Len(payload))
         IN <<base + 55 + Len(len)>> \o len \o payload

RECURSIVE EncodeRlp(_)
RECURSIVE EncodeAll(_)
EncodeAll(xs) == IF Len(xs) = 0 THEN <<>>
                 ELSE EncodeRlp(Head(xs)) \o EncodeAll(Tail(xs))

EncodeRlp(x) ==
    IF IsList(x) THEN LengthPrefix(192, EncodeAll(x.l))
    ELSE IF Len(x.b) = 1 /\ x.b[1] <= 127 THEN x.b
    ELSE LengthPrefix(128, x.b)

\* The inverse, as a node reads the bytes.  DecodeAt returns the item that
\* starts at offset i and the offset after it; a truncated input decodes to
\* the item Bad.
Bad == [bad |-> TRUE]

HeaderAt(bs, i) ==
    LET t == bs[i]
        long(base) == LET n == t - base - 55
                      IN  IF i + n > Len(bs) THEN [start |-> 0, len |-> 0]
                          ELSE [start |-> i + 1 + n,
                                len |-> Value(SubSeq(bs, i + 1, i + n))]
    IN  IF t <= 127 THEN [kind |-> "b", start |-> i, len |-> 1]
        ELSE IF t <= 183 THEN [kind |-> "b", start |-> i + 1, len |-> t - 128]
        ELSE IF t <= 191 THEN [kind |-> "b"] @@ long(128)
        ELSE IF t <= 247 THEN [kind |-> "l", start |-> i + 1, len |-> t - 192]
        ELSE [kind |-> "l"] @@ long(192)

RECURSIVE DecodeAt(_, _)
RECURSIVE DecodeList(_, _, _)
DecodeList(bs, i, end) ==
    IF i > end THEN <<>>
    ELSE LET d == DecodeAt(bs, i)
         IN  IF d.item = Bad THEN <<Bad>>
             ELSE <<d.item>> \o DecodeList(bs, d.next, end)

DecodeAt(bs, i) ==
    IF i > Len(bs) THEN [item |-> Bad, next |-> i]
    ELSE LET h == HeaderAt(bs, i)
             end == h.start + h.len - 1
         IN  IF h.start = 0 \/ end > Len(bs) THEN [item |-> Bad, next |-> i]
             ELSE IF h.kind = "b"
                  THEN [item |-> B(SubSeq(bs, h.start, end)), next |-> end + 1]
                  ELSE LET xs == DecodeList(bs, h.start, end)
                       IN  IF \E k \in 1..Len(xs) : xs[k] = Bad
                           THEN [item |-> Bad, next |-> i]
                           ELSE [item |-> L(xs), next |-> end + 1]

DecodeRlp(bs) ==
    LET d == DecodeAt(bs, 1)
    IN  IF d.item # Bad /\ d.next = Len(bs) + 1 THEN d.item ELSE Bad

(***************************************************************************)
(* Accounts, keys and contracts                                            *)
(***************************************************************************)

\* PRIVATE_KEY is the user (authority, Alice), PRIVATE_KEY_2 the sponsor (Bob).
Keys == {"user", "sponsor"}

Fill(n, v) == [i \in 1..n |-> v]

\* new ethers.Wallet(key).address: 20 bytes, one per key
AddressOf(key) == IF key = "user" THEN Fill(20, 161) ELSE Fill(20, 178)

\* deploymentInfo.contractAddress of the three deployment files
SPONSOR_CONTRACT_ADDRESS == Fill(20, 195)
BATCH_CALL_DELEGATION_ADDRESS == Fill(20, 212)
LOG_EMITTER_ADDRESS == Fill(20, 229)

\* process.env.RECIPIENT_ADDRESS || "0xa06b838A5c46D3736Dff107427fA0A4B43F3cc66"
DefaultRecipient ==
    <<160, 107, 131, 138, 92, 70, 211, 115, 109, 255,
      16, 116, 39, 250, 10, 75, 67, 243, 204, 102>>

\* ethers.parseEther("0.0001"), ethers.parseEther("0.001"),
\* ethers.parseUnits("10", "gwei")
Ether0_0001 == <<90, 243, 16, 122, 64, 0>>
Ether0_001 == <<3, 141, 126, 164, 198, 128, 0>>
TenGwei == <<2, 84, 11, 228, 0>>

(***************************************************************************)
(* Hashing and signing                                                     *)
(***************************************************************************)

\* ethers.keccak256(bytes): symbolic and so injective
Keccak256(bytes) == [keccak256 |-> bytes]
NoDigest == Keccak256(<<>>)

\* signingKey.sign(digest): deterministic (RFC 6979); yParity is 0 or 1 and
\* v is 27 + yParity; r and s are 32-byte hex strings.  msg and signer are
\* what ecrecover gets back from the three numbers.
Sign(key, digest) ==
    LET pre == digest.keccak256
        c == Mix(pre, 1, Len(pre)) + (IF key = "user" THEN 1 ELSE 2)
    IN  [signer |-> key, msg |-> digest, yParity |-> c % 2, v |-> 27 + (c % 2),
         r |-> [i \in 1..32 |-> 1 + ((c + 7 * i) % 255)],
         s |-> [i \in 1..32 |-> 1 + ((3 * c + 11 * i) % 127)]]

NoSig == [signer |-> "none", msg |-> NoDigest, yParity |-> 0, v |-> 0,
          r |-> <<>>, s |-> <<>>]

(***************************************************************************)
(* The relay pattern: typed data, calldata, and the Sponsor contract       *)
(***************************************************************************)

\* TypedDataEncoder.hash(domain, types, message): 0x1901, the domain's
\* fields, the message's fields; the inner struct hashes are kept as their
\* preimages.  name "Sponsor" and version "1" are fixed.
HashTypedData(domain, message) ==
    Keccak256(<<25, 1>> \o Word(Digits(domain.chainId))
              \o Word(domain.verifyingContract)
              \o Word(message.sender) \o Word(message.recipient)
              \o Word(message.amount) \o Word(Digits(message.nonce)))

\* wallet.signTypedData followed by ethers.Signature.from
SignTypedData(key, domain, message) == Sign(key, HashTypedData(domain, message))

\* The first four bytes of a function's selector hash (stand-ins, one per
\* function of the three interfaces).
Selector(fn) == CASE fn = "sponsoredTransfer" -> <<163, 1, 1, 1>>
                  [] fn = "execute" -> <<163, 2, 2, 2>>
                  [] fn = "emitHello" -> <<163, 3, 3, 3>>

\* sponsorInterface.encodeFunctionData("sponsoredTransfer", [sender,
\* recipient, amount, nonce, v, r, s]): the selector and seven words
EncodeSponsoredTransfer(sender, recipient, amount, nonce, v, r, s) ==
    Selector("sponsoredTransfer") \o Word(sender) \o Word(recipient)
    \o Word(amount) \o Word(Digits(nonce)) \o Word(Digits(v)) \o r \o s

\* batchInterface.encodeFunctionData("execute", [calls]) with one call whose
\* data is "0x": the array's offset and length, the tuple's offset, the
\* tuple (offset of data, to, value) and the empty data's length
EncodeExecute(to, value) ==
    Selector("execute") \o Word(<<32>>) \o Word(<<1>>) \o Word(<<32>>)
    \o Word(<<96>>) \o Word(to) \o Word(value) \o Word(<<>>)

\* The arguments a contract reads back from sponsoredTransfer calldata.
Strip(w) == LET nz == {i \in 1..Len(w) : w[i] # 0}
            IN  IF nz = {} THEN <<>>
                ELSE SubSeq(w, CHOOSE i \in nz : \A j \in nz : i <= j, Len(w))
ArgWord(calldata, k) == SubSeq(calldata, 4 + 32 * (k - 1) + 1, 4 + 32 * k)
IsSponsoredTransfer(calldata) ==
    Len(calldata) = 4 + 7 * 32 /\ SubSeq(calldata, 1, 4) = Selector("sponsoredTransfer")
DecodeSponsoredTransfer(calldata) ==
    [sender |-> SubSeq(ArgWord(calldata, 1), 13, 32),
     recipient |-> SubSeq(ArgWord(calldata, 2), 13, 32),
     amount |-> Strip(ArgWord(calldata, 3)),
     nonce |-> Value(Strip(ArgWord(calldata, 4))),
     v |-> Value(Strip(ArgWord(calldata, 5))),
     r |-> ArgWord(calldata, 6),
     s |-> ArgWord(calldata, 7)]

(***************************************************************************)
(* The scripts                                                             *)
(***************************************************************************)

\* One name per main(): scripts/sponsoredTransaction.js; the three mains of
\* scripts/testSponsor.js; the two of scripts/sponsorEIP7702.js;
\* scripts/sponsorEIP7702Debug.js; the type-4 debug script (unnamed/part_001)
\* and logEmitterEIP7702.js (unnamed/part_002).
Type4Scripts == {"sponsoredTransaction", "testSponsor", "testSimplified",
                 "testAlternative", "simpleEIP7702Sponsor", "debugType4",
                 "logEmitterEIP7702"}
StandardScripts == {"sponsorEIP7702", "sponsorEIP7702Debug"}
Scripts == Type4Scripts \cup StandardScripts
RelayScripts == {"testSponsor", "sponsorEIP7702", "simpleEIP7702Sponsor",
                 "sponsorEIP7702Debug", "debugType4"}

\* The awaited calls and the computations between them, in source order, up
\* to the end of the try block that holds the submission.
Program(script) ==
    CASE script = "sponsoredTransaction" ->
           <<"getNetwork", "encodeCalldata", "getSponsorNonce",
             "buildAuthorization", "signAuthorization", "getFeeData",
             "buildTxData", "hashTxData", "signTxData", "assembleSignedTx",
             "sendRaw">>
      [] script = "testSponsor" ->
           <<"nonces", "getNetwork", "signTypedData", "encodeCalldata",
             "getFeeData", "getSponsorNonce", "buildAuthorization",
             "signAuthorization", "buildTxData", "hashTxData", "signTxData",
             "assembleSignedTx", "sendRaw", "readState", "verdict">>
      [] script = "testSimplified" ->
           <<"getNetwork", "standardTest", "getAuthorityNonce",
             "getSponsorNonce", "buildAuthorization", "signAuthorization",
             "getFeeData", "buildTxData", "hashTxData", "signTxData",
             "assembleSignedTx", "sendRaw">>
      [] script = "testAlternative" ->
           <<"getNetwork", "encodeCalldata", "getSponsorNonce",
             "buildAuthorization", "signAuthorization", "getFeeData",
             "buildTxData", "hashTxData", "signTxData", "assembleSignedTx",
             "sendRaw">>
      [] script = "sponsorEIP7702" ->
           <<"getNetwork", "nonces", "signTypedData", "encodeCalldata",
             "getSponsorNonce", "getFeeData", "sendStandard", "readState",
             "verdict">>
      [] script = "simpleEIP7702Sponsor" ->
           <<"getNetwork", "nonces", "signTypedData", "encodeCalldata",
             "getSponsorNonce", "getFeeData", "buildAuthorization",
             "signAuthorization", "buildTxData", "hashTxData", "signTxData",
             "assembleSignedTx", "sendRaw", "writeTxInfo", "getReceipt",
             "readState", "verdict">>
      [] script = "sponsorEIP7702Debug" ->
           <<"getNetwork", "nonces", "signTypedData", "encodeCalldata",
             "getSponsorNonce", "getFeeData", "sendStandard", "readState",
             "verdict">>
      [] script = "debugType4" ->
           <<"getNetwork", "nonces", "signTypedData", "encodeCalldata",
             "getSponsorNonce", "getFeeData", "buildAuthorization",
             "signAuthorization", "buildTxData", "hashTxData", "signTxData",
             "assembleSignedTx", "sendRaw", "writeTxInfo", "getReceipt",
             "readState", "verdict">>
      [] script = "logEmitterEIP7702" ->
           <<"getNetwork", "encodeCalldata", "getAuthorityNonce",
             "getSponsorNonce", "getFeeData", "buildAuthorization",
             "signAuthorization", "buildTxData", "hashTxData", "signTxData",
             "assembleSignedTx", "sendRaw", "writeTxInfo", "getReceipt">>

\* (variant: every script puts the sponsor's count there)
AuthorizationNonceCounted(script, l) == Digits(l.sponsorNonce)

\* authorizationData.nonce before toBeHex: the count each script puts there
AuthorizationNonce(script, l) ==
    CASE script \in {"testSimplified", "logEmitterEIP7702"} ->
           Digits(l.authorityNonce)
      [] script = "testAlternative" -> Digits(1001)
      [] OTHER -> Digits(l.sponsorNonce)

\* authorizationData.address
DelegateAddress(script) ==
    CASE script \in {"sponsoredTransaction", "testSimplified", "testAlternative"} ->
           BATCH_CALL_DELEGATION_ADDRESS
      [] script = "logEmitterEIP7702" -> LOG_EMITTER_ADDRESS
      [] OTHER -> SPONSOR_CONTRACT_ADDRESS

\* txData[5], the "to" field
Destination(script) ==
    IF script \in {"debugType4", "logEmitterEIP7702"}
    THEN AddressOf("user") ELSE AddressOf("sponsor")

\* txData[6], the value field: '0x', ethers.toBeHex(0) or ethers.toBeHex(amount)
ValueField(script) ==
    CASE script = "testSponsor" -> ToBeHex(<<>>)
      [] script = "debugType4" -> ToBeHex(Ether0_0001)
      [] OTHER -> <<>>

\* the gas limit of the type-4 transaction
GasLimit(script) ==
    CASE script = "testSimplified" -> 100000
      [] script = "simpleEIP7702Sponsor" -> 300000
      [] script = "logEmitterEIP7702" -> 200000
      [] OTHER -> 1000000

\* the calldata of each script ('0x' in the simplified test)
Calldata(script, l) ==
    CASE script = "sponsoredTransaction" ->
           EncodeExecute(AddressOf("sponsor"), Ether0_001)
      [] script = "testAlternative" ->
           EncodeExecute(DefaultRecipient, Ether0_0001)
      [] script = "logEmitterEIP7702" -> Selector("emitHello")
      [] OTHER ->
           EncodeSponsoredTransfer(AddressOf("user"), DefaultRecipient,
                                   Ether0_0001, l.currentNonce, l.sig.v,
                                   l.sig.r, l.sig.s)

\* The typed-data domain and message of the relay scripts.
Domain(l) == [chainId |-> l.chainId, verifyingContract |-> SPONSOR_CONTRACT_ADDRESS]
\* (variant: a message whose nonce is not the one the run read)
MessageNextNonce(l) ==
    [sender |-> AddressOf("user"), recipient |-> DefaultRecipient,
     amount |-> Ether0_0001, nonce |-> l.currentNonce + 1]
Message(l) == [sender |-> AddressOf("user"), recipient |-> DefaultRecipient,
               amount |-> Ether0_0001, nonce |-> l.currentNonce]

\* A fee the node does not report is Null; 0n is reported but falsy.
Null == <<-1>>
\* (variant: only an absent fee is replaced, as with ??)
TruthyNullish(v) == v # Null
Truthy(v) == v # Null /\ v # <<>>
Or(a, b) == IF Truthy(a) THEN a ELSE b

\* The fallbacks from feeData to the pair the transaction carries: field by
\* field in three scripts, as a pair in the others.
PerFieldScripts == {"sponsoredTransaction", "testSponsor", "debugType4"}
ResolveFees(script, feeData) ==
    LET gasPrice == Or(feeData.gasPrice, TenGwei)
    IN  IF script \in PerFieldScripts
        THEN [maxPriorityFeePerGas |-> Or(feeData.maxPriorityFeePerGas, gasPrice),
              maxFeePerGas |-> Or(feeData.maxFeePerGas, gasPrice)]
        ELSE IF Truthy(feeData.maxFeePerGas) /\ Truthy(feeData.maxPriorityFeePerGas)
        THEN [maxPriorityFeePerGas |-> feeData.maxPriorityFeePerGas,
              maxFeePerGas |-> feeData.maxFeePerGas]
        ELSE [maxPriorityFeePerGas |-> gasPrice, maxFeePerGas |-> gasPrice]

\* authorizationData as first built: chainId, address, nonce
AuthorizationData(script, l) ==
    [chainId |-> ToBeHex(Digits(l.chainId)),
     address |-> DelegateAddress(script),
     nonce |-> ToBeHex(AuthorizationNonce(script, l)),
     yParity |-> <<>>, r |-> <<>>, s |-> <<>>]

\* encodedAuthorizationData: 0x05 and the RLP of the three
\* (variant: the RLP without the 0x05 byte)
EncodedAuthorizationDataNoMagic(a) ==
    EncodeRlp(L(<<B(a.chainId), B(a.address), B(a.nonce)>>))
EncodedAuthorizationData(a) ==
    <<5>> \o EncodeRlp(L(<<B(a.chainId), B(a.address), B(a.nonce)>>))

\* signature.yParity == 0 ? '0x' : '0x01'
\* (variant: the legacy v, 27 or 28)
YParityLegacy(sig) == ToBeHex(Digits(sig.v))
YParityField(sig) == IF sig.yParity = 0 THEN <<>> ELSE <<1>>

\* the signature's three numbers stored into authorizationData
StoreSignature(a, sig) ==
    [a EXCEPT !.yParity = YParityField(sig), !.r = sig.r, !.s = sig.s]

\* the authorization list of txData: one tuple of six
\* (variant: the six values directly in the list)
AuthorizationListFlat(a) ==
    L(<<B(a.chainId), B(a.address), B(a.nonce), B(a.yParity), B(a.r), B(a.s)>>)
AuthorizationList(a) ==
    L(<<L(<<B(a.chainId), B(a.address), B(a.nonce), B(a.yParity), B(a.r), B(a.s)>>)>>)

\* txData[7]: the calldata, '0x' in the simplified test
DataField(script, l) == IF script = "testSimplified" THEN <<>> ELSE l.calldata

\* txData, the ten fields
\* (variant: the authorization embedded without its signature)
TxDataBareAuthorization(script, l) ==
    <<B(ToBeHex(Digits(l.chainId))),
      B(ToBeHex(Digits(l.sponsorNonce))),
      B(ToBeHex(l.maxPriorityFeePerGas)),
      B(ToBeHex(l.maxFeePerGas)),
      B(ToBeHex(Digits(GasLimit(script)))),
      B(Destination(script)),
      B(ValueField(script)),
      B(DataField(script, l)),
      L(<<>>),
      AuthorizationList([l.authorizationData EXCEPT !.yParity = <<>>,
                                                    !.r = <<>>, !.s = <<>>])>>
TxData(script, l) ==
    <<B(ToBeHex(Digits(l.chainId))),
      B(ToBeHex(Digits(l.sponsorNonce))),
      B(ToBeHex(l.maxPriorityFeePerGas)),
      B(ToBeHex(l.maxFeePerGas)),
      B(ToBeHex(Digits(GasLimit(script)))),
      B(Destination(script)),
      B(ValueField(script)),
      B(DataField(script, l)),
      L(<<>>),
      AuthorizationList(l.authorizationData)>>

\* encodedTxData: 0x04 and the RLP of txData
EncodedTxData(txData) == <<4>> \o EncodeRlp(L(txData))

\* signedTx: 0x04 and the RLP of [...txData, yParity, r, s]
\* (variant: the gas limit changed after signing)
SignedTxChanged(txData, sig) ==
    <<4>> \o EncodeRlp(L([txData EXCEPT ![5] = B(<<1>>)]
                         \o <<B(YParityField(sig)), B(sig.r), B(sig.s)>>))
SignedTx(txData, sig) ==
    <<4>> \o EncodeRlp(L(txData \o <<B(YParityField(sig)), B(sig.r), B(sig.s)>>))

(***************************************************************************)
(* The node and the Sponsor contract, as the scripts see them              *)
(***************************************************************************)

VARIABLES
    chainId,      \* the network's chain id
    txCount,      \* the transaction count of each account
    relayNonces,  \* the Sponsor contract's nonces(address)
    calls,        \* every sponsoredTransfer call executed, in order
    mined,        \* every transaction the node accepted, in order
    started,      \* how many runs have started
    script,       \* the script each run executes
    phase,        \* idle, main, catch, fallback, done
    pc,           \* the index of the run's next step in its Program
    loc,          \* the run's local variables
    trace,        \* the steps the run has taken
    exitCode      \* the code the process exited with (-1 while it runs)

vars == <<chainId, txCount, relayNonces, calls, mined, started, script, phase,
          pc, loc, trace, exitCode>>
net == <<chainId, txCount, relayNonces, calls, mined>>

\* An integer field of a transaction as a node accepts it: no leading zero.
CanonicalInt(b) == IF Len(b) = 0 THEN TRUE ELSE b[1] # 0

\* The thirteen fields of a raw type-4 transaction, or <<>>.
RawFields(raw) ==
    IF Len(raw) < 2 \/ raw[1] # 4 THEN <<>>
    ELSE LET it == DecodeRlp(Tail(raw))
         IN  IF it # Bad /\ IsList(it) THEN it.l ELSE <<>>

IsTuple(t) == /\ IsList(t)
              /\ Len(t.l) = 6
              /\ \A k \in 1..6 : IsBytes(t.l[k])

WellFormed(f) ==
    /\ Len(f) = 13
    /\ \A k \in (1..8) \cup (11..13) : IsBytes(f[k])
    /\ IsList(f[9]) /\ IsList(f[10])
    /\ \A k \in {1, 2, 3, 4, 5, 7, 11} : CanonicalInt(f[k].b)
    /\ Len(f[6].b) = 20
    /\ \A k \in 1..Len(f[10].l) :
         /\ IsTuple(f[10].l[k])
         /\ \A j \in {1, 3, 4} : CanonicalInt(f[10].l[k].l[j].b)

\* ecrecover: the key whose signature of the digest has these three numbers
Recover(digest, yParity, r, s) ==
    LET match == {k \in Keys : LET sg == Sign(k, digest)
                               IN  YParityField(sg) = yParity /\ sg.r = r /\ sg.s = s}
    IN  IF match = {} THEN "none" ELSE CHOOSE k \in match : TRUE

SenderOf(f) ==
    Recover(Keccak256(<<4>> \o EncodeRlp(L(SubSeq(f, 1, 10)))),
            f[11].b, f[12].b, f[13].b)

AuthorityOf(t) ==
    Recover(Keccak256(<<5>> \o EncodeRlp(L(SubSeq(t.l, 1, 3)))),
            t.l[4].b, t.l[5].b, t.l[6].b)

\* The node takes a raw transaction only if it decodes, is for this chain,
\* recovers to a sender and carries that sender's next nonce.
\* (variant: a node that does not compare the nonce)
NodeTakesAnyNonce(raw) ==
    LET f == RawFields(raw)
    IN  /\ WellFormed(f)
        /\ f[1].b = Digits(chainId)
        /\ SenderOf(f) # "none"
NodeTakes(raw) ==
    LET f == RawFields(raw)
    IN  /\ WellFormed(f)
        /\ f[1].b = Digits(chainId)
        /\ SenderOf(f) # "none"
        /\ f[2].b = Digits(txCount[SenderOf(f)])

\* sponsoredTransfer as the contract executes it: the nonce argument must be
\* the sender's counter and the signature must recover to the sender.
\* (variant: a contract that does not compare the nonce)
TransferAcceptedAnyNonce(data) ==
    LET a == DecodeSponsoredTransfer(data)
    IN  \E k \in Keys :
          /\ AddressOf(k) = a.sender
          /\ LET sg == SignTypedData(k,
                         [chainId |-> chainId,
                          verifyingContract |-> SPONSOR_CONTRACT_ADDRESS],
                         [sender |-> a.sender, recipient |-> a.recipient,
                          amount |-> a.amount, nonce |-> a.nonce])
             IN  sg.v = a.v /\ sg.r = a.r /\ sg.s = a.s
TransferAccepted(data) ==
    LET a == DecodeSponsoredTransfer(data)
    IN  \E k \in Keys :
          /\ AddressOf(k) = a.sender
          /\ a.nonce = relayNonces[k]
          /\ LET sg == SignTypedData(k,
                         [chainId |-> chainId,
                          verifyingContract |-> SPONSOR_CONTRACT_ADDRESS],
                         [sender |-> a.sender, recipient |-> a.recipient,
                          amount |-> a.amount, nonce |-> a.nonce])
             IN  sg.v = a.v /\ sg.r = a.r /\ sg.s = a.s

KeyAt(address) == IF address = AddressOf("user") THEN "user" ELSE "sponsor"

\* The effect of a mined call to `to` with `data`: only the Sponsor contract
\* has a sponsoredTransfer, and a call it rejects reverts.
Execute(p, to, data) ==
    IF to = SPONSOR_CONTRACT_ADDRESS /\ IsSponsoredTransfer(data)
    THEN LET a == DecodeSponsoredTransfer(data)
             k == KeyAt(a.sender)
             ok == TransferAccepted(data)
         IN  /\ relayNonces' = IF ok THEN [relayNonces EXCEPT ![k] = @ + 1]
                                ELSE relayNonces
             /\ calls' = Append(calls, [run |-> p, sender |-> k, nonce |-> a.nonce,
                                        before |-> relayNonces[k], ok |-> ok])
    ELSE UNCHANGED <<relayNonces, calls>>

\* The node mines a raw type-4 transaction: the sender's count goes up, then
\* each authorization whose nonce is its authority's count is applied (and
\* that count goes up), then the call runs.
MineRaw(p, raw) ==
    LET f == RawFields(raw)
        sender == SenderOf(f)
        c1 == [txCount EXCEPT ![sender] = @ + 1]
        t == f[10].l[1]
        authority == AuthorityOf(t)
        applies == /\ Len(f[10].l) = 1
                   /\ authority # "none"
                   /\ t.l[1].b \in {<<>>, Digits(chainId)}
                   /\ t.l[3].b = Digits(c1[authority])
    IN  /\ txCount' = IF applies THEN [c1 EXCEPT ![authority] = @ + 1] ELSE c1
        /\ mined' = Append(mined, [run |-> p, from |-> sender,
                                   nonce |-> txCount[sender], type |-> 4])
        /\ Execute(p, f[6].b, f[8].b)

\* wallet.sendTransaction: the wallet fills in its own next nonce.
MineStandard(p, from, to, data) ==
    /\ txCount' = [txCount EXCEPT ![from] = @ + 1]
    /\ mined' = Append(mined, [run |-> p, from |-> from,
                               nonce |-> txCount[from], type |-> 2])
    /\ Execute(p, to, data)

(***************************************************************************)
(* The runs                                                                *)
(***************************************************************************)

Gwei1 == <<59, 154, 202, 0>>
Gwei20 == <<4, 168, 23, 200, 0>>
FeeValues == {Null, <<>>, Gwei1, Gwei20}
NoFeeData == [gasPrice |-> Null, maxFeePerGas |-> Null, maxPriorityFeePerGas |-> Null]

\* What getFeeData can answer: any three values, the tip at most the cap
\* when the node reports both.
FeeDataSet ==
    {fd \in [gasPrice : FeeValues, maxFeePerGas : FeeValues,
             maxPriorityFeePerGas : FeeValues] :
       (fd.maxFeePerGas # Null /\ fd.maxPriorityFeePerGas # Null)
          => BigLeq(fd.maxPriorityFeePerGas, fd.maxFeePerGas)}

\* The message of a failed call: one that names the transaction type as
\* unsupported (it contains "decode", "invalid", "unknown" or "unsupported"),
\* or any other.
ErrorMessages == {"unsupported", "other"}

NoAuthorization == [chainId |-> <<>>, address |-> <<>>, nonce |-> <<>>,
                    yParity |-> <<>>, r |-> <<>>, s |-> <<>>]

InitLoc == [chainId |-> 0, currentNonce |-> -1, sig |-> NoSig, calldata |-> <<>>,
            sponsorNonce |-> -1, authorityNonce |-> -1,
            authorizationData |-> NoAuthorization,
            authorizationDataHash |-> NoDigest,
            authorizationSignature |-> NoSig,
            feeData |-> NoFeeData,
            maxPriorityFeePerGas |-> <<>>, maxFeePerGas |-> <<>>,
            txData |-> <<>>, txDataHash |-> NoDigest, txSignature |-> NoSig,
            signedTx |-> <<>>, txHash |-> "none", fallbackHash |-> "none",
            error |-> "none", receipt |-> "none", newNonce |-> -1,
            verdict |-> "none"]

Runs == {1, 2}

MaxInitCount == 1

Init ==
    /\ chainId \in {51178}
    /\ txCount \in [Keys -> 0..MaxInitCount]
    /\ relayNonces \in {[k \in Keys |-> IF k = "user" THEN n ELSE 0] :
                          n \in 0..MaxInitCount}
    /\ calls = <<>>
    /\ mined = <<>>
    /\ started = 0
    /\ script = [p \in Runs |-> "none"]
    /\ phase = [p \in Runs |-> "idle"]
    /\ pc = [p \in Runs |-> 0]
    /\ loc = [p \in Runs |-> InitLoc]
    /\ trace = [p \in Runs |-> <<>>]
    /\ exitCode = [p \in Runs |-> -1]

\* npx hardhat run <script>: a process starts (again, once the last exited)
Start(p, scripts, limit) ==
    /\ phase[p] \in {"idle", "done"}
    /\ started < limit
    /\ \E sc \in scripts : script' = [script EXCEPT ![p] = sc]
    /\ started' = started + 1
    /\ phase' = [phase EXCEPT ![p] = "main"]
    /\ pc' = [pc EXCEPT ![p] = 1]
    /\ loc' = [loc EXCEPT ![p] = InitLoc]
    /\ trace' = [trace EXCEPT ![p] = <<>>]
    /\ exitCode' = [exitCode EXCEPT ![p] = -1]
    /\ UNCHANGED net

At(p, step) ==
    /\ phase[p] = "main"
    /\ pc[p] <= Len(Program(script[p]))
    /\ Program(script[p])[pc[p]] = step

\* A step ends: the locals are l, the run moves on.  feeData is read only by
\* the fallbacks next to the call that fetched it; the model forgets it after
\* the step that follows.
Done(p, step, l) ==
    /\ loc' = [loc EXCEPT ![p] = IF step = "getFeeData" THEN l
                                 ELSE [l EXCEPT !.feeData = NoFeeData]]
    /\ pc' = [pc EXCEPT ![p] = @ + 1]
    /\ trace' = [trace EXCEPT ![p] = Append(@, step)]
    /\ UNCHANGED <<started, script, phase, exitCode>>

\* A step throws inside the try block: control goes to the catch clause.
Throw(p, step, l, message) ==
    /\ loc' = [loc EXCEPT ![p] = [l EXCEPT !.error = message, !.feeData = NoFeeData]]
    /\ phase' = [phase EXCEPT ![p] = "catch"]
    /\ trace' = [trace EXCEPT ![p] = Append(@, step)]
    /\ UNCHANGED <<started, script, pc, exitCode>>

\* process.exit(code)
Exit(p, code) ==
    /\ phase' = [phase EXCEPT ![p] = "done"]
    /\ exitCode' = [exitCode EXCEPT ![p] = code]
    /\ UNCHANGED <<started, script, pc>>

\* const network = await ethers.provider.getNetwork()
GetNetwork(p) ==
    /\ At(p, "getNetwork")
    /\ Done(p, "getNetwork", [loc[p] EXCEPT !.chainId = chainId])
    /\ UNCHANGED net

\* const currentNonce = await sponsorContract.nonces(user.address)
Nonces(p) ==
    /\ At(p, "nonces")
    /\ Done(p, "nonces", [loc[p] EXCEPT !.currentNonce = relayNonces["user"]])
    /\ UNCHANGED net

\* const signature = await user.signTypedData(domain, types, message)
SignTyped(p) ==
    /\ At(p, "signTypedData")
    /\ Done(p, "signTypedData",
            [loc[p] EXCEPT !.sig = SignTypedData("user", Domain(loc[p]), Message(loc[p]))])
    /\ UNCHANGED net

\* const calldata = <interface>.encodeFunctionData(...)
EncodeCalldata(p) ==
    /\ At(p, "encodeCalldata")
    /\ Done(p, "encodeCalldata",
            [loc[p] EXCEPT !.calldata = Calldata(script[p], loc[p])])
    /\ UNCHANGED net

\* await ethers.provider.getTransactionCount(sponsor.address)
GetSponsorNonce(p) ==
    /\ At(p, "getSponsorNonce")
    /\ Done(p, "getSponsorNonce", [loc[p] EXCEPT !.sponsorNonce = txCount["sponsor"]])
    /\ UNCHANGED net

\* await ethers.provider.getTransactionCount(<authority>.address)
GetAuthorityNonce(p) ==
    /\ At(p, "getAuthorityNonce")
    /\ Done(p, "getAuthorityNonce", [loc[p] EXCEPT !.authorityNonce = txCount["user"]])
    /\ UNCHANGED net

\* A variant of the simplified test's first step that goes on without the
\* standard transaction having been sent.
StandardTestSkipped(p) ==
    /\ At(p, "standardTest")
    /\ Done(p, "standardTest", loc[p])
    /\ UNCHANGED net

\* The simplified test's standard transaction from the authority, sent and
\* waited for; if it fails main throws and the process exits with 1.
StandardTest(p) ==
    /\ At(p, "standardTest")
    /\ \E ok \in BOOLEAN :
         IF ok
         THEN /\ MineStandard(p, "user", AddressOf("sponsor"), <<>>)
              /\ Done(p, "standardTest", loc[p])
              /\ UNCHANGED chainId
         ELSE /\ Exit(p, 1)
              /\ UNCHANGED <<loc, trace, net>>

\* const feeData = await ethers.provider.getFeeData(), and the fallbacks
GetFeeData(p, answers) ==
    /\ At(p, "getFeeData")
    /\ \E fd \in answers :
         LET fees == ResolveFees(script[p], fd)
         IN  Done(p, "getFeeData",
                  [loc[p] EXCEPT !.feeData = fd,
                                 !.maxPriorityFeePerGas = fees.maxPriorityFeePerGas,
                                 !.maxFeePerGas = fees.maxFeePerGas])
    /\ UNCHANGED net

\* const authorizationData = {chainId, address, nonce}
BuildAuthorization(p) ==
    /\ At(p, "buildAuthorization")
    /\ Done(p, "buildAuthorization",
            [loc[p] EXCEPT !.authorizationData = AuthorizationData(script[p], loc[p])])
    /\ UNCHANGED net

\* The key that signs the authorization: PRIVATE_KEY in every script.
AuthorizationSigner == "user"

\* encodedAuthorizationData, its keccak256, the authority's signature of it,
\* and the three numbers stored back into authorizationData
SignAuthorization(p) ==
    /\ At(p, "signAuthorization")
    /\ LET hash == Keccak256(EncodedAuthorizationData(loc[p].authorizationData))
           sg == Sign(AuthorizationSigner, hash)
       IN  Done(p, "signAuthorization",
                [loc[p] EXCEPT !.authorizationDataHash = hash,
                               !.authorizationSignature = sg,
                               !.authorizationData = StoreSignature(@, sg)])
    /\ UNCHANGED net

\* const txData = [...]
BuildTxData(p) ==
    /\ At(p, "buildTxData")
    /\ Done(p, "buildTxData", [loc[p] EXCEPT !.txData = TxData(script[p], loc[p])])
    /\ UNCHANGED net

\* const encodedTxData = ...; const txDataHash = ethers.keccak256(encodedTxData)
HashTxData(p) ==
    /\ At(p, "hashTxData")
    /\ Done(p, "hashTxData",
            [loc[p] EXCEPT !.txDataHash = Keccak256(EncodedTxData(loc[p].txData))])
    /\ UNCHANGED net

\* (variant: a signer that draws a fresh number for every signature)
SignTxDataFresh(p) ==
    /\ At(p, "signTxData")
    /\ Done(p, "signTxData",
            [loc[p] EXCEPT !.txSignature =
               [Sign("sponsor", loc[p].txDataHash) EXCEPT !.r = Fill(32, started)]])
    /\ UNCHANGED net

\* const txSignature = sponsor.signingKey.sign(txDataHash)
SignTxData(p) ==
    /\ At(p, "signTxData")
    /\ Done(p, "signTxData",
            [loc[p] EXCEPT !.txSignature = Sign("sponsor", loc[p].txDataHash)])
    /\ UNCHANGED net

\* const signedTx = ethers.hexlify(ethers.concat(['0x04', encodeRlp([...])]))
AssembleSignedTx(p) ==
    /\ At(p, "assembleSignedTx")
    /\ Done(p, "assembleSignedTx",
            [loc[p] EXCEPT !.signedTx = SignedTx(loc[p].txData, loc[p].txSignature)])
    /\ UNCHANGED net

\* await ethers.provider.send('eth_sendRawTransaction', [signedTx]): a hash
\* if the node takes the transaction, or an error
SendRaw(p) ==
    /\ At(p, "sendRaw")
    /\ \E out \in {"hash"} \cup ErrorMessages :
         IF out = "hash"
         THEN /\ NodeTakes(loc[p].signedTx)
              /\ MineRaw(p, loc[p].signedTx)
              /\ Done(p, "sendRaw", [loc[p] EXCEPT !.txHash = "hash"])
              /\ UNCHANGED chainId
         ELSE /\ Throw(p, "sendRaw", loc[p], out)
              /\ UNCHANGED net

\* await sponsor.sendTransaction({to: SPONSOR_CONTRACT_ADDRESS, data: calldata, ...})
SendStandard(p) ==
    /\ At(p, "sendStandard")
    /\ \E out \in {"hash"} \cup ErrorMessages :
         IF out = "hash"
         THEN /\ MineStandard(p, "sponsor", SPONSOR_CONTRACT_ADDRESS, loc[p].calldata)
              /\ Done(p, "sendStandard", [loc[p] EXCEPT !.txHash = "hash"])
              /\ UNCHANGED chainId
         ELSE /\ Throw(p, "sendStandard", loc[p], out)
              /\ UNCHANGED net

\* JSON.stringify of the transaction-info record: network.chainId is a BigInt
\* in two scripts (a TypeError), Number(network.chainId) in the third.
WriteTxInfo(p) ==
    /\ At(p, "writeTxInfo")
    /\ IF script[p] \in {"simpleEIP7702Sponsor", "debugType4"}
       THEN Throw(p, "writeTxInfo", loc[p], "typeError")
       ELSE Done(p, "writeTxInfo", loc[p])
    /\ UNCHANGED net

\* What Promise.race([getTransactionReceipt(txHash), timeoutPromise]) settles
\* with: the receipt, null (the node holds no receipt for the hash yet: the
\* transaction is pending), an error of the query, or the timer's rejection
\* when the query has not answered in time.
ReceiptAnswers == {"receipt", "null", "error", "timeout"}

\* The "Wait for receipt with timeout" block: one query raced against the
\* timer; a rejection is caught by the block's own catch, and the run goes on.
GetReceipt(p) ==
    /\ At(p, "getReceipt")
    /\ \E answer \in ReceiptAnswers :
         Done(p, "getReceipt", [loc[p] EXCEPT !.receipt = answer])
    /\ UNCHANGED net

\* await sponsorContract.gasSpent(user), await sponsorContract.nonces(user)
ReadState(p) ==
    /\ At(p, "readState")
    /\ \E ok \in BOOLEAN :
         IF ok THEN Done(p, "readState", [loc[p] EXCEPT !.newNonce = relayNonces["user"]])
         ELSE Throw(p, "readState", loc[p], "other")
    /\ UNCHANGED net

\* if (newNonce > currentNonce) ... else ...
Verdict(p) ==
    /\ At(p, "verdict")
    /\ Done(p, "verdict",
            [loc[p] EXCEPT !.verdict = IF loc[p].newNonce > loc[p].currentNonce
                                       THEN "success" ELSE "warning"])
    /\ UNCHANGED net

\* main() returns: .then(() => process.exit(0))
Finish(p) ==
    /\ phase[p] = "main"
    /\ pc[p] > Len(Program(script[p]))
    /\ Exit(p, 0)
    /\ UNCHANGED <<loc, trace, net>>

\* A variant of the catch clause that logs the error and lets main return.
CatchSwallow(p) ==
    /\ phase[p] = "catch"
    /\ Exit(p, 0)
    /\ UNCHANGED <<loc, trace, net>>

\* The catch clause of the try block around the submission: three scripts
\* rethrow, three only log, one always tries the fallback, two try it when
\* the message names the transaction type as unsupported.
Catch(p) ==
    /\ phase[p] = "catch"
    /\ CASE script[p] \in {"sponsoredTransaction", "testSponsor", "testAlternative"} ->
              Exit(p, 1)
         [] script[p] \in {"testSimplified", "sponsorEIP7702Debug", "debugType4"} ->
              Exit(p, 0)
         [] script[p] = "sponsorEIP7702" ->
              /\ phase' = [phase EXCEPT ![p] = "fallback"]
              /\ UNCHANGED <<started, script, pc, exitCode>>
         [] OTHER ->
              IF loc[p].error = "unsupported"
              THEN /\ phase' = [phase EXCEPT ![p] = "fallback"]
                   /\ UNCHANGED <<started, script, pc, exitCode>>
              ELSE Exit(p, 0)
    /\ UNCHANGED <<loc, trace, net>>

\* The fallback standard transaction from the sponsor with the same calldata;
\* its failure is rethrown by sponsorEIP7702.js and logged by the others.
FallbackTo(sc) == IF sc = "logEmitterEIP7702" THEN LOG_EMITTER_ADDRESS
                  ELSE SPONSOR_CONTRACT_ADDRESS
Fallback(p) ==
    /\ phase[p] = "fallback"
    /\ \E ok \in BOOLEAN :
         IF ok
         THEN /\ MineStandard(p, "sponsor", FallbackTo(script[p]), loc[p].calldata)
              /\ loc' = [loc EXCEPT ![p].fallbackHash = "hash"]
              /\ trace' = [trace EXCEPT ![p] = Append(@, "fallback")]
              /\ Exit(p, 0)
              /\ UNCHANGED chainId
         ELSE /\ trace' = [trace EXCEPT ![p] = Append(@, "fallback")]
              /\ Exit(p, IF script[p] = "sponsorEIP7702" THEN 1 ELSE 0)
              /\ UNCHANGED <<loc, net>>

\* One step of run p.
Step(p, answers) ==
    \/ GetNetwork(p) \/ Nonces(p) \/ SignTyped(p) \/ EncodeCalldata(p)
    \/ GetSponsorNonce(p) \/ GetAuthorityNonce(p) \/ StandardTest(p)
    \/ GetFeeData(p, answers) \/ BuildAuthorization(p) \/ SignAuthorization(p)
    \/ BuildTxData(p) \/ HashTxData(p) \/ SignTxData(p) \/ AssembleSignedTx(p)
    \/ SendRaw(p) \/ SendStandard(p) \/ WriteTxInfo(p) \/ GetReceipt(p)
    \/ ReadState(p) \/ Verdict(p) \/ Finish(p) \/ Catch(p) \/ Fallback(p)

\* One run of any script.
Next == Start(1, Scripts, 1) \/ Step(1, FeeDataSet)

Spec == Init /\ [][Next]_vars

(***************************************************************************)
(* Runs of the relay scripts one after another                             *)
(***************************************************************************)

MaxRuns == 2

\* The two answers of getFeeData these specifications tell apart.
FewFees == {NoFeeData,
            [gasPrice |-> Gwei1, maxFeePerGas |-> Gwei20,
             maxPriorityFeePerGas |-> Gwei1]}

StepRelay(p) ==
    \/ GetNetwork(p) \/ Nonces(p) \/ SignTyped(p) \/ EncodeCalldata(p)
    \/ GetSponsorNonce(p) \/ GetFeeData(p, FewFees) \/ SendStandard(p)
    \/ ReadState(p) \/ Verdict(p) \/ Finish(p) \/ Catch(p) \/ Fallback(p)

NextRelay == Start(1, StandardScripts, MaxRuns) \/ StepRelay(1)

SpecRelay == Init /\ [][NextRelay]_vars

(***************************************************************************)
(* Two runs of a sponsoring script at once                                 *)
(***************************************************************************)

RaceScripts == {"sponsoredTransaction"}

StepRace(p) ==
    \/ GetNetwork(p) \/ EncodeCalldata(p) \/ GetSponsorNonce(p)
    \/ BuildAuthorization(p) \/ SignAuthorization(p) \/ GetFeeData(p, FewFees)
    \/ BuildTxData(p) \/ HashTxData(p) \/ SignTxData(p) \/ AssembleSignedTx(p)
    \/ SendRaw(p) \/ Finish(p) \/ Catch(p)

\* Each of the two processes is started once.
StartOnce(p) == phase[p] = "idle" /\ Start(p, RaceScripts, 2)

NextRace == \E p \in Runs : StartOnce(p) \/ StepRace(p)

SpecRace == Init /\ [][NextRace]_vars

(***************************************************************************)
(* The same type-4 script run twice, the second run after the first        *)
(***************************************************************************)

StepPair(p) ==
    \/ GetNetwork(p) \/ Nonces(p) \/ SignTyped(p) \/ EncodeCalldata(p)
    \/ GetSponsorNonce(p) \/ GetAuthorityNonce(p) \/ StandardTest(p)
    \/ GetFeeData(p, FewFees) \/ BuildAuthorization(p) \/ SignAuthorization(p)
    \/ BuildTxData(p) \/ HashTxData(p) \/ SignTxData(p) \/ AssembleSignedTx(p)
    \/ SendRaw(p) \/ WriteTxInfo(p) \/ GetReceipt(p)
    \/ Finish(p) \/ Catch(p) \/ Fallback(p)

StartFirst == phase[1] = "idle" /\ Start(1, Type4Scripts, 2)

StartSecond ==
    /\ phase[1] = "done"
    /\ phase[2] = "idle"
    /\ Start(2, {script[1]}, 2)

NextPair == StartFirst \/ StartSecond \/ \E p \in Runs : StepPair(p)

SpecPair == Init /\ [][NextPair]_vars

(***************************************************************************)
(* Two runs of the standard relay scripts at once, for the same user       *)
(***************************************************************************)

StepRelayRace(p) ==
    \/ GetNetwork(p) \/ Nonces(p) \/ SignTyped(p) \/ EncodeCalldata(p)
    \/ GetSponsorNonce(p) \/ GetFeeData(p, {NoFeeData}) \/ SendStandard(p)
    \/ ReadState(p) \/ Verdict(p) \/ Finish(p) \/ Catch(p) \/ Fallback(p)

StartRelayOnce(p) == phase[p] = "idle" /\ Start(p, StandardScripts, 2)

NextRelayRace == \E p \in Runs : StartRelayOnce(p) \/ StepRelayRace(p)

SpecRelayRace == Init /\ [][NextRelayRace]_vars

(***************************************************************************)
(* Properties                                                              *)
(***************************************************************************)

\* Run p has taken the step (a submission counts whether or not it failed).
Took(p, step) == \E i \in 1..Len(trace[p]) : trace[p][i] = step

\* Run p took step a and, later, step b.
Before(p, a, b) ==
    \E i, j \in 1..Len(trace[p]) : i < j /\ trace[p][i] = a /\ trace[p][j] = b

\* The single authorization tuple of a decoded raw transaction.
TupleOf(f) == f[10].l[1].l

\* C1: between building the authorization and submitting, the nonce in the
\* authorization tuple is the authority's own transaction count on the
\* network (and so not the sponsor's when the two counts differ).
C1_AuthorizationNonceIsAuthoritys ==
    \A p \in Runs :
      (Took(p, "buildAuthorization") /\ ~Took(p, "sendRaw"))
        => Value(loc[p].authorizationData.nonce) = txCount[AuthorizationSigner]

\* C2: once the signed transaction is assembled, the sponsor's signature in
\* its last three fields is the signature, made earlier in the run, of
\* keccak256(0x04 || RLP(first ten fields of the final list)), those ten are
\* the fields that were hashed, and nothing is submitted before that.
C2_SponsorSignatureCoversFinalFields ==
    \A p \in Runs :
      /\ Took(p, "sendRaw") => Before(p, "assembleSignedTx", "sendRaw")
      /\ Took(p, "assembleSignedTx") =>
           LET f == RawFields(loc[p].signedTx)
               sg == loc[p].txSignature
           IN  /\ Before(p, "hashTxData", "signTxData")
               /\ Before(p, "signTxData", "assembleSignedTx")
               /\ Len(f) = 13
               /\ SubSeq(f, 1, 10) = loc[p].txData
               /\ loc[p].txDataHash = Keccak256(<<4>> \o EncodeRlp(L(SubSeq(f, 1, 10))))
               /\ sg = Sign("sponsor", loc[p].txDataHash)
               /\ <<f[11], f[12], f[13]>> = <<B(YParityField(sg)), B(sg.r), B(sg.s)>>

C2_Witness ==
    /\ script[1] = "debugType4"
    /\ Took(1, "sendRaw")
    /\ loc[1].txHash = "hash"
    /\ loc[1].maxFeePerGas = Gwei20
    /\ loc[1].maxPriorityFeePerGas = Gwei1

\* C3: a submitted raw transaction is 0x04 and the RLP of thirteen fields,
\* in order chainId, nonce, maxPriorityFeePerGas, maxFeePerGas, gasLimit, to,
\* value, data, accessList, authorizationList, yParity, r, s, and its
\* authorizationList is one tuple chainId, address, nonce, yParity, r, s.
C3_RawTransactionLayout ==
    \A p \in Runs :
      Took(p, "sendRaw") =>
        LET raw == loc[p].signedTx
            f == RawFields(raw)
            l == loc[p]
            a == l.authorizationData
        IN  /\ raw[1] = 4
            /\ raw = <<4>> \o EncodeRlp(L(f))
            /\ Len(f) = 13
            /\ f[1] = B(ToBeHex(Digits(l.chainId)))
            /\ f[2] = B(ToBeHex(Digits(l.sponsorNonce)))
            /\ f[3] = B(ToBeHex(l.maxPriorityFeePerGas))
            /\ f[4] = B(ToBeHex(l.maxFeePerGas))
            /\ f[5] = B(ToBeHex(Digits(GasLimit(script[p]))))
            /\ f[6] = B(Destination(script[p]))
            /\ f[7] = B(ValueField(script[p]))
            /\ f[8] = B(DataField(script[p], l))
            /\ f[9] = L(<<>>)
            /\ IsList(f[10]) /\ Len(f[10].l) = 1 /\ IsTuple(f[10].l[1])
            /\ TupleOf(f) = <<B(a.chainId), B(a.address), B(a.nonce),
                              B(a.yParity), B(a.r), B(a.s)>>
            /\ <<a.chainId, a.address>> =
                 <<ToBeHex(Digits(l.chainId)), DelegateAddress(script[p])>>
            /\ f[11] = B(YParityField(l.txSignature))
            /\ f[12] = B(l.txSignature.r)
            /\ f[13] = B(l.txSignature.s)

C3_Witness ==
    /\ script[1] = "logEmitterEIP7702"
    /\ Took(1, "sendRaw")
    /\ loc[1].txHash = "hash"
    /\ loc[1].maxFeePerGas # loc[1].maxPriorityFeePerGas
    /\ Len(RawFields(loc[1].signedTx)) = 13

\* C4: the authority's signature is PRIVATE_KEY's signature of
\* keccak256(0x05 || RLP([chainId, address, nonce])), and the tuple in the
\* transaction carries those three values and that signature's yParity, r, s.
C4_AuthorizationDigestAndTuple ==
    \A p \in Runs :
      Took(p, "buildTxData") =>
        LET t == TupleOf(loc[p].txData)
            sg == loc[p].authorizationSignature
            digest == Keccak256(<<5>> \o EncodeRlp(L(<<t[1], t[2], t[3]>>)))
        IN  /\ Before(p, "signAuthorization", "buildTxData")
            /\ loc[p].authorizationDataHash = digest
            /\ sg = Sign("user", digest)
            /\ <<t[1], t[2], t[3]>> =
                 <<B(ToBeHex(Digits(loc[p].chainId))), B(DelegateAddress(script[p])),
                   B(ToBeHex(AuthorizationNonce(script[p], loc[p])))>>
            /\ <<t[4], t[5], t[6]>> = <<B(YParityField(sg)), B(sg.r), B(sg.s)>>
            /\ Took(p, "assembleSignedTx") =>
                 TupleOf(RawFields(loc[p].signedTx)) = t

C4_Witness ==
    /\ script[1] = "testSimplified"
    /\ Took(1, "sendRaw")
    /\ loc[1].authorityNonce = 2
    /\ loc[1].authorizationSignature.signer = "user"

\* C5: every integer field of the authorization tuple and of the transaction
\* field list is minimal big-endian, zero being the empty byte string.
C5_IntegerFieldsMinimal ==
    \A p \in Runs :
      /\ Took(p, "buildAuthorization") =>
           /\ CanonicalInt(loc[p].authorizationData.chainId)
           /\ CanonicalInt(loc[p].authorizationData.nonce)
           /\ CanonicalInt(loc[p].authorizationData.yParity)
      /\ Took(p, "buildTxData") =>
           \A k \in {1, 2, 3, 4, 5, 7} : CanonicalInt(loc[p].txData[k].b)
      /\ Took(p, "assembleSignedTx") =>
           CanonicalInt(RawFields(loc[p].signedTx)[11].b)

\* C6: in a relay script the calldata's sender, recipient, amount and nonce
\* are the four values of the message the user's key signed, the sender is
\* that key's address, and the nonce is the one nonces(user) returned
\* earlier in the run (the contract's counter, until a call changes it).
C6_RelayMessageAndCall ==
    \A p \in Runs :
      (script[p] \in RelayScripts /\ Took(p, "encodeCalldata")) =>
        LET a == DecodeSponsoredTransfer(loc[p].calldata)
            sg == loc[p].sig
            m == [sender |-> a.sender, recipient |-> a.recipient,
                  amount |-> a.amount, nonce |-> a.nonce]
        IN  /\ Before(p, "nonces", "signTypedData")
            /\ Before(p, "signTypedData", "encodeCalldata")
            /\ IsSponsoredTransfer(loc[p].calldata)
            /\ a.nonce = loc[p].currentNonce
            /\ (calls = <<>>) => (loc[p].currentNonce = relayNonces["user"])
            /\ sg = SignTypedData(sg.signer, Domain(loc[p]), m)
            /\ a.sender = AddressOf(sg.signer)
            /\ <<a.v, a.r, a.s>> = <<sg.v, sg.r, sg.s>>

C6_Witness ==
    /\ script[1] = "sponsorEIP7702Debug"
    /\ Took(1, "sendStandard")
    /\ loc[1].currentNonce = 1
    /\ Len(calls) = 1
    /\ calls[1].ok
    /\ calls[1].nonce = 1

\* C7: a step changes a relay counter only by adding 1 to the counter of
\* the sender of a sponsoredTransfer call executed in that step, the call is
\* accepted only if its nonce argument is the counter before the step, and a
\* call whose nonce is already consumed is rejected and changes nothing.
C7_RelayCounter ==
    [][LET n == Len(calls)
           c == calls'[n + 1]
       IN  /\ \A k \in Keys : relayNonces'[k] \in {relayNonces[k], relayNonces[k] + 1}
           /\ (relayNonces' # relayNonces) =>
                /\ Len(calls') = n + 1
                /\ c.ok
                /\ relayNonces' = [relayNonces EXCEPT ![c.sender] = @ + 1]
           /\ (Len(calls') = n + 1) =>
                /\ c.ok => (c.nonce = relayNonces[c.sender] /\ relayNonces' # relayNonces)
                /\ (c.nonce < relayNonces[c.sender]) =>
                     (~c.ok /\ relayNonces' = relayNonces)
           /\ Len(calls') \in {n, n + 1}]_vars

C7_Witness ==
    \E i, j \in 1..Len(calls) :
      /\ i < j
      /\ calls[i].ok
      /\ ~calls[j].ok
      /\ calls[j].nonce = calls[i].nonce
      /\ calls[j].sender = calls[i].sender
      /\ relayNonces[calls[i].sender] = calls[i].nonce + 1

\* C8: two runs that read the same sponsor transaction count build
\* transactions with the same nonce field, the node accepts at most one of
\* the two, and neither run reads the count or submits a second time.
C8_SameNonceAtMostOneAccepted ==
    /\ (loc[1].sponsorNonce = loc[2].sponsorNonce /\ loc[1].sponsorNonce # -1) =>
         /\ (Took(1, "buildTxData") /\ Took(2, "buildTxData")) =>
              /\ loc[1].txData[2] = loc[2].txData[2]
              /\ loc[1].txData[2] = B(ToBeHex(Digits(loc[1].sponsorNonce)))
         /\ ~(loc[1].txHash = "hash" /\ loc[2].txHash = "hash")
    /\ \A p \in Runs : \A step \in {"getSponsorNonce", "sendRaw"} :
         Cardinality({i \in 1..Len(trace[p]) : trace[p][i] = step}) <= 1

C8_Witness ==
    /\ loc[1].sponsorNonce = 1
    /\ loc[2].sponsorNonce = 1
    /\ loc[1].txData # loc[2].txData
    /\ loc[1].txHash = "hash"
    /\ Took(2, "sendRaw")
    /\ loc[2].txHash = "none"
    /\ phase[1] = "done" /\ phase[2] = "done"
    /\ exitCode = <<0, 1>>

\* C9: in a type-4 script the steps come in the order sign authorization,
\* build the field list with it, hash, sponsor signs, assemble, submit, and
\* the bytes the sponsor signed hold the authorization's chainId, address,
\* nonce and the yParity, r, s of the authority's signature.
C9_OrderAndCoverage ==
    \A p \in Runs :
      /\ Took(p, "buildTxData") => Before(p, "signAuthorization", "buildTxData")
      /\ Took(p, "hashTxData") => Before(p, "buildTxData", "hashTxData")
      /\ Took(p, "signTxData") => Before(p, "hashTxData", "signTxData")
      /\ Took(p, "assembleSignedTx") => Before(p, "signTxData", "assembleSignedTx")
      /\ Took(p, "sendRaw") => Before(p, "assembleSignedTx", "sendRaw")
      /\ Took(p, "signTxData") =>
           LET f == RawFields(loc[p].txSignature.msg.keccak256)
               a == loc[p].authorizationData
               sg == loc[p].authorizationSignature
           IN  /\ Len(f) = 10
               /\ sg.signer = "user"
               /\ Len(sg.r) = 32 /\ Len(sg.s) = 32
               /\ TupleOf(f) = <<B(a.chainId), B(a.address), B(a.nonce),
                                 B(YParityField(sg)), B(sg.r), B(sg.s)>>

C9_Witness ==
    /\ script[1] = "sponsoredTransaction"
    /\ Took(1, "sendRaw")
    /\ loc[1].txHash = "hash"
    /\ exitCode[1] = 0

\* C10: the yParity of the authorization tuple and the yParity of the
\* sponsor's signature are written as the empty byte string (0) or 0x01 (1),
\* matching the signature's yParity, never as 27 or 28.
C10_YParityZeroOrOne ==
    \A p \in Runs :
      /\ Took(p, "signAuthorization") =>
           /\ loc[p].authorizationData.yParity \in {<<>>, <<1>>}
           /\ (loc[p].authorizationData.yParity = <<1>>)
                <=> (loc[p].authorizationSignature.yParity = 1)
      /\ Took(p, "assembleSignedTx") =>
           LET f == RawFields(loc[p].signedTx)
           IN  /\ f[11].b \in {<<>>, <<1>>}
               /\ (f[11].b = <<1>>) <=> (loc[p].txSignature.yParity = 1)
               /\ TupleOf(f)[4].b = loc[p].authorizationData.yParity

C10_Witness ==
    /\ Took(1, "sendRaw")
    /\ loc[1].txSignature.v = 28
    /\ loc[1].authorizationSignature.v = 27
    /\ RawFields(loc[1].signedTx)[11].b = <<1>>
    /\ TupleOf(RawFields(loc[1].signedTx))[4].b = <<>>

C12_Approach1IsType4 ==
    \A p \in Runs :
      (script[p] = "sponsorEIP7702" /\ loc[p].txHash = "hash") =>
        /\ Took(p, "sendRaw")
        /\ \E i \in 1..Len(mined) : mined[i].run = p /\ mined[i].type = 4

\* C13: a run sends its fallback transaction only if its primary submission
\* returned no hash, so the node never takes two transactions from one run
\* of a script that has a fallback.
C13_FallbackOnlyWithoutHash ==
    \A p \in Runs :
      (script[p] \in {"sponsorEIP7702", "simpleEIP7702Sponsor", "logEmitterEIP7702"}) =>
        /\ Took(p, "fallback") => loc[p].txHash = "none"
        /\ Cardinality({i \in 1..Len(mined) : mined[i].run = p}) <= 1

\* C14: in simpleEIP7702Sponsor and the type-4 debug script a run whose raw
\* transaction returned a hash writes the transaction-info record without
\* error and never enters the catch clause that prints 'Error sending
\* transaction'; if it ends, it has read the state and printed a verdict.
C14_SentRunReachesVerdict ==
    \A p \in Runs :
      (script[p] \in {"simpleEIP7702Sponsor", "debugType4"} /\ loc[p].txHash = "hash") =>
        /\ Took(p, "writeTxInfo") => loc[p].error # "typeError"
        /\ phase[p] # "catch"
        /\ (phase[p] = "done" /\ loc[p].error = "none") => Took(p, "verdict")

\* C15: every transaction that carries sponsoredTransfer calldata is
\* addressed to the Sponsor contract, the verifyingContract of the signed
\* domain: the field list of a type-4 relay script has it as destination,
\* and a standard relay transaction the node took reached the contract.
C15_RelayCallAddressedToVerifier ==
    \A p \in Runs :
      (script[p] \in RelayScripts) =>
        /\ Took(p, "buildTxData") =>
             loc[p].txData[6].b = Domain(loc[p]).verifyingContract
        /\ (Took(p, "sendStandard") /\ loc[p].txHash = "hash") =>
             \E i \in 1..Len(calls) : calls[i].run = p

\* C16: the destination field of a type-4 transaction is the address of
\* the key that signed the authorization it embeds.
C16_DestinationIsAuthority ==
    \A p \in Runs :
      Took(p, "buildTxData") =>
        loc[p].txData[6].b = AddressOf(loc[p].authorizationSignature.signer)

\* C17: in the simplified test an authorization is signed, and a type-4
\* transaction sent, only after the standard transaction from the authority
\* was taken by the node, and the authority nonce of the authorization was
\* read after it: it is that transaction's nonce plus one.
C17_StandardTestFirst ==
    \A p \in Runs :
      (script[p] = "testSimplified"
         /\ (Took(p, "signAuthorization") \/ Took(p, "sendRaw"))) =>
        /\ Before(p, "standardTest", "getAuthorityNonce")
        /\ Before(p, "getAuthorityNonce", "signAuthorization")
        /\ \E i \in 1..Len(mined) :
             /\ mined[i].run = p /\ mined[i].from = "user" /\ mined[i].type = 2
             /\ loc[p].authorityNonce = mined[i].nonce + 1
        /\ loc[p].authorizationData.nonce = Digits(loc[p].authorityNonce)

C17_Witness ==
    \E p \in Runs :
      /\ script[p] = "testSimplified"
      /\ Took(p, "sendRaw")
      /\ loc[p].authorityNonce = 2
      /\ loc[p].authorizationData.nonce = <<2>>

\* C18: a run leaves the receipt step only with the receipt in hand or
\* with the timer expired (or the query failed): it does not go on while
\* the node still answers that the transaction has no receipt.
C18_ReceiptOrTimeout ==
    \A p \in Runs :
      Took(p, "getReceipt") => loc[p].receipt \in {"receipt", "timeout", "error"}

\* C19: in sponsoredTransaction.js and the first and third mains of
\* testSponsor.js a run whose eth_sendRawTransaction failed is in its catch
\* clause or has ended, it ends with exit code 1, and it never ends with
\* exit code 0 (main did not return, so no completion message).
C19_SendFailureExitsOne ==
    \A p \in Runs :
      (script[p] \in {"sponsoredTransaction", "testSponsor", "testAlternative"}
         /\ Took(p, "sendRaw") /\ loc[p].txHash = "none") =>
        /\ loc[p].error \in ErrorMessages
        /\ phase[p] \in {"catch", "done"}
        /\ phase[p] = "done" => exitCode[p] = 1
        /\ exitCode[p] # 0

C19_Witness ==
    \E p \in Runs :
      /\ script[p] = "testAlternative"
      /\ Took(p, "sendRaw") /\ loc[p].txHash = "none"
      /\ phase[p] = "done" /\ exitCode[p] = 1

\* C20: a run that has ended with exit code 0 had at least one of its
\* transactions taken by the node (a hash was returned to it); a run that
\* ended with none taken has exit code 1.
C20_ExitZeroOnlyAfterAcceptance ==
    \A p \in Runs :
      phase[p] = "done" =>
        IF \E i \in 1..Len(mined) : mined[i].run = p
        THEN exitCode[p] \in {0, 1}
        ELSE exitCode[p] = 1

\* C21: a run holds the verdict "successful (nonce was updated)" only if
\* the Sponsor contract accepted a call submitted by that run, also when
\* another run for the same user acts between its two reads of the counter.
C21_SuccessVerdictIsOwnCall ==
    \A p \in Runs :
      loc[p].verdict = "success" =>
        \E i \in 1..Len(calls) : calls[i].run = p /\ calls[i].ok

\* C22: whatever the node reports (with tip at most cap when it reports
\* both), the pair a script resolves and places in the transaction has
\* maxPriorityFeePerGas <= maxFeePerGas.
C22_TipAtMostCap ==
    \A p \in Runs :
      /\ Took(p, "getFeeData") =>
           BigLeq(loc[p].maxPriorityFeePerGas, loc[p].maxFeePerGas)
      /\ Took(p, "buildTxData") =>
           BigLeq(Strip(loc[p].txData[3].b), Strip(loc[p].txData[4].b))

\* C23: for every answer of getFeeData, absent and zero values included,
\* the maxPriorityFeePerGas and maxFeePerGas a script resolves and places
\* in the transaction are strictly positive; when the gas price is absent
\* or zero, a fee that is not taken from the node's answer is 10 gwei.
Positive(d) == d # Null /\ Len(d) > 0 /\ d[1] # 0

C23_FeesPositive ==
    \A p \in Runs :
      /\ Took(p, "getFeeData") =>
           /\ Positive(loc[p].maxPriorityFeePerGas)
           /\ Positive(loc[p].maxFeePerGas)
      /\ (Len(trace[p]) > 0 /\ trace[p][Len(trace[p])] = "getFeeData"
            /\ ~Truthy(loc[p].feeData.gasPrice)) =>
           /\ loc[p].maxPriorityFeePerGas
                \in {loc[p].feeData.maxPriorityFeePerGas, TenGwei}
           /\ loc[p].maxFeePerGas \in {loc[p].feeData.maxFeePerGas, TenGwei}
      /\ Took(p, "buildTxData") =>
           /\ Positive(loc[p].txData[3].b)
           /\ Positive(loc[p].txData[4].b)

C23_Witness ==
    \E p \in Runs :
      /\ Took(p, "buildTxData")
      /\ script[p] = "sponsoredTransaction"
      /\ loc[p].txData[3].b = TenGwei
      /\ loc[p].txData[4].b = Gwei1

\* C24: in the alternative script the authorization nonce is 1001 (0x03e9)
\* whatever the transaction counts are, the authorization and the
\* transaction are built and signed with it, and the only step of the run
\* that fails is the submission to the node.
C24_ConstantNonceBuilds ==
    \A p \in Runs :
      script[p] = "testAlternative" =>
        /\ Took(p, "buildAuthorization") =>
             loc[p].authorizationData.nonce = <<3, 233>>
        /\ Took(p, "signAuthorization") =>
             /\ loc[p].authorizationSignature.signer = "user"
             /\ loc[p].authorizationSignature.msg = loc[p].authorizationDataHash
        /\ Took(p, "assembleSignedTx") =>
             LET f == RawFields(loc[p].signedTx)
             IN  /\ Len(f) = 13
                 /\ TupleOf(f)[3] = B(<<3, 233>>)
                 /\ f[2] = B(ToBeHex(Digits(loc[p].sponsorNonce)))
        /\ loc[p].error # "none" =>
             /\ trace[p][Len(trace[p])] = "sendRaw"
             /\ Took(p, "assembleSignedTx")

C24_Witness ==
    \E p \in Runs :
      /\ script[p] = "testAlternative"
      /\ txCount["user"] = 1 /\ loc[p].sponsorNonce = 1
      /\ loc[p].error \in ErrorMessages
      /\ TupleOf(RawFields(loc[p].signedTx))[3] = B(<<3, 233>>)
====
